---- MODULE Spec2Model ----
(***************************************************************************)
(* A model of the sales data-quality pipeline (src/main.py,                *)
(* src/ConnectDatabase.py): the rule checks over the sales table, the      *)
(* reconciliation against the payments table, the concurrent report        *)
(* generation, the corrections, and the connection handling of main().     *)
(*                                                                         *)
(* Conventions.  A SQL value is an option: None (<<>>) is NULL and         *)
(* Some(v) (<<v>>) is the value v.  A text value is a sequence of          *)
(* one-character strings, so that TRIM and LOWER are computed and not      *)
(* assumed.  A table is a sequence of rows, a row a record whose fields    *)
(* are the column names.                                                   *)
(***************************************************************************)
EXTENDS Integers, Sequences, FiniteSets, TLC

VARIABLES
    sales,               \* table sales of my_database.db
    payments,            \* table payments of payments.db
    numeric_ranges,      \* last result of check_numeric_ranges, or None
    categorical_values,  \* last result of check_categorical_values, or None
    missing_values,      \* last result of check_missing_values, or None
    categorical_before,  \* result of check_categorical_values before the corrections, or None
    discrepancies,       \* last result of check_payment_consistency, or None
    mismatch_threshold,  \* the threshold of that call
    sales0,              \* the sales table before any correction (history)
    applied,             \* the correction queries run so far, with their counts (history)
    correction_counts,   \* the dict auto_correct_data builds and returns
    correct_pc,          \* auto_correct_data: index of the next correction, or its outcome
    main_pc,             \* main(): the statement it is at
    fault,               \* the task of generate_quality_report whose query raises, or "none"
    task_pc,             \* generate_quality_report: each submitted task's position
    futures,             \* generate_quality_report: each future's outcome, or None
    report,              \* generate_quality_report: the dict being collected
    completed,           \* the tasks in the order they completed (history)
    handles,             \* every database connection of the run: its state
    catalog,             \* the tables of the database reset works on: name -> contents
    reset_pc,            \* reset: the statement it is at, or its outcome
    reset_args,          \* reset: the file_path and table_name the caller passed (history)
    table_name,          \* reset: its local variable table_name
    tables               \* reset: the rows of SHOW TABLES the loop has not visited yet

vars == <<sales, payments, numeric_ranges, categorical_values, missing_values,
          categorical_before,
          discrepancies, mismatch_threshold,
          sales0, applied, correction_counts, correct_pc,
          main_pc, fault, task_pc, futures, report, completed, handles,
          catalog, reset_pc, reset_args, table_name, tables>>

qualityVars == <<numeric_ranges, categorical_values, missing_values, categorical_before>>
reconcileVars == <<discrepancies, mismatch_threshold>>
correctVars == <<sales0, applied, correction_counts, correct_pc>>
pipelineVars == <<main_pc, fault, task_pc, futures, report, completed, handles>>
resetVars == <<catalog, reset_pc, reset_args, table_name, tables>>

(***************************************************************************)
(* Bounds of the model.                                                    *)
(***************************************************************************)
MaxRows == 2
MaxApplied == 3

(***************************************************************************)
(* SQL values.                                                             *)
(***************************************************************************)
None == <<>>
Some(v) == <<v>>
IsNull(x) == x = <<>>
Val(x) == x[1]

RangeOf(s) == {s[i] : i \in DOMAIN s}

\* All sequences over S of length at most n.
SeqsUpTo(S, n) == UNION {[1..k -> S] : k \in 0..n}

\* All orderings of the finite set S as sequences without repetition.
Orderings(S) ==
    {q \in [1..Cardinality(S) -> S] : \A i, j \in DOMAIN q : q[i] = q[j] => i = j}

(***************************************************************************)
(* Text.                                                                   *)
(***************************************************************************)
sA == <<"A">>
sB == <<"B">>
sC == <<"C">>
sD == <<"D">>
sMember == <<"M", "e", "m", "b", "e", "r">>
sNormal == <<"N", "o", "r", "m", "a", "l">>
sMale == <<"M", "a", "l", "e">>
sFemale == <<"F", "e", "m", "a", "l", "e">>
sCash == <<"C", "a", "s", "h">>
sCreditCard == <<"C", "r", "e", "d", "i", "t", " ", "c", "a", "r", "d">>
sEwallet == <<"E", "w", "a", "l", "l", "e", "t">>
sLowerMale == <<"m", "a", "l", "e">>
sLowerFemale == <<"f", "e", "m", "a", "l", "e">>
sLowerMember == <<"m", "e", "m", "b", "e", "r">>
sLowerNormal == <<"n", "o", "r", "m", "a", "l">>
sUpperMale == <<"M", "A", "L", "E">>
sSpaceMale == <<" ", "m", "a", "l", "e">>
sMaleSpace == <<"M", "a", "l", "e", " ">>
sOther == <<"O", "t", "h", "e", "r">>
sCheque == <<"C", "h", "e", "q", "u", "e">>
sYangon == <<"Y", "a", "n", "g", "o", "n">>
sFood == <<"F", "o", "o", "d">>
sSpaceNormalSpace == <<" ", "n", "o", "r", "m", "a", "l", " ">>
sSpaceInv1 == <<" ", "I", "1">>
sYangonSpace == <<"Y", "a", "n", "g", "o", "n", " ">>
sSpaceCash == <<" ", " ", "C", "a", "s", "h">>
sInv1 == <<"I", "1">>
sInv2 == <<"I", "2">>

(***************************************************************************)
(* The rule set of DataQualityChecker.__init__.                            *)
(***************************************************************************)
NumericCols == {"Unit_price", "Quantity", "Rating", "gross_margin_pct"}

numeric_rules ==
    [Unit_price |-> <<0, 1000>>,
     Quantity |-> <<0, 100>>,
     Rating |-> <<0, 10>>,
     gross_margin_pct |-> <<0, 100>>]

CategoricalCols == {"Branch", "Customer_type", "Gender", "Payment"}

categorical_rules ==
    [Branch |-> <<sA, sB, sC>>,
     Customer_type |-> <<sMember, sNormal>>,
     Gender |-> <<sMale, sFemale>>,
     Payment |-> <<sCash, sCreditCard, sEwallet>>]

(***************************************************************************)
(* check_column_range: the aggregate query                                 *)
(*   SELECT count, MIN(c), MAX(c) FROM sales WHERE c < min OR c > max.     *)
(* A NULL in c makes the WHERE condition NULL, which selects no row.       *)
(***************************************************************************)
\* The mutation of RangeWhere that treats the bounds as exclusive.
RangeWhereExclusive(x, min_val, max_val) ==
    /\ ~IsNull(x)
    /\ (Val(x) <= min_val \/ Val(x) >= max_val)

RangeWhere(x, min_val, max_val) ==
    /\ ~IsNull(x)
    /\ (Val(x) < min_val \/ Val(x) > max_val)

ColumnOf(table, column) == [i \in DOMAIN table |-> table[i][column]]

SqlMin(xs) ==
    IF xs = <<>> THEN None
    ELSE Some(CHOOSE m \in {Val(x) : x \in RangeOf(xs)} :
                  \A x \in RangeOf(xs) : m <= Val(x))

SqlMax(xs) ==
    IF xs = <<>> THEN None
    ELSE Some(CHOOSE m \in {Val(x) : x \in RangeOf(xs)} :
                  \A x \in RangeOf(xs) : m >= Val(x))

check_column_range(table, column, min_val, max_val) ==
    LET selected == SelectSeq(ColumnOf(table, column),
                              LAMBDA x : RangeWhere(x, min_val, max_val))
    IN  [outlier_count |-> Len(selected),
         min_value |-> SqlMin(selected),
         max_value |-> SqlMax(selected)]

\* pool.map over the configured columns, collected into a dict by column.
check_numeric_ranges(table) ==
    [col \in NumericCols |->
        check_column_range(table, col, numeric_rules[col][1], numeric_rules[col][2])]

(***************************************************************************)
(* check_categorical_values: per column                                    *)
(*   SELECT DISTINCT c FROM sales WHERE c NOT IN (allow-list).             *)
(* NULL NOT IN (...) is NULL, so a NULL entry selects no row.  DISTINCT    *)
(* leaves one row per value, in an order the engine chooses.               *)
(***************************************************************************)
\* The mutation of NotInList that compares against the first allowed value only.
NotInListFirstOnly(x, valid_values) ==
    /\ ~IsNull(x)
    /\ Val(x) # valid_values[1]

NotInList(x, valid_values) ==
    /\ ~IsNull(x)
    /\ Val(x) \notin RangeOf(valid_values)

DistinctInvalid(table, column) ==
    {Val(x) : x \in {y \in RangeOf(ColumnOf(table, column)) :
                        NotInList(y, categorical_rules[column])}}

\* Every result check_categorical_values can return for the table.
check_categorical_values_results(table) ==
    {r \in [CategoricalCols -> UNION {Orderings(DistinctInvalid(table, c)) :
                                          c \in CategoricalCols}] :
        \A c \in CategoricalCols : r[c] \in Orderings(DistinctInvalid(table, c))}

(***************************************************************************)
(* Rows and tables the checks are run on.                                  *)
(***************************************************************************)
DefaultRow ==
    [Invoice_ID |-> Some(sInv1),
     Branch |-> Some(sA),
     City |-> Some(sYangon),
     Customer_type |-> Some(sMember),
     Gender |-> Some(sMale),
     Product_line |-> Some(sFood),
     Payment |-> Some(sCash),
     Unit_price |-> Some(10),
     Quantity |-> Some(2),
     Total |-> Some(21),
     Date |-> Some(-1),
     Rating |-> Some(5),
     gross_margin_pct |-> Some(5)]

\* The values a numeric column takes: NULL, and both sides of both bounds.
NumericValues(col) ==
    LET lo == numeric_rules[col][1]
        hi == numeric_rules[col][2]
    IN  {None, Some(lo - 1), Some(lo), Some(hi), Some(hi + 1)}

\* The values a categorical column takes: NULL, the allowed values, case and
\* whitespace variants of an allowed value, and unrelated values.
CategoricalValues(col) ==
    {None} \cup {Some(v) : v \in RangeOf(categorical_rules[col])}
    \cup (CASE col = "Branch" -> {Some(sD)}
            [] col = "Customer_type" -> {Some(sLowerMember), Some(sOther)}
            [] col = "Gender" -> {Some(sLowerMale), Some(sSpaceMale), Some(sOther)}
            [] col = "Payment" -> {Some(sCheque)})

\* Rows that differ from DefaultRow in at most one checked column.
QualityRows ==
    {DefaultRow}
    \cup UNION {{[DefaultRow EXCEPT ![c] = v] : v \in NumericValues(c)} : c \in NumericCols}
    \cup UNION {{[DefaultRow EXCEPT ![c] = v] : v \in CategoricalValues(c)} : c \in CategoricalCols}

\* No reconciliation has run.
ReconcileIdle ==
    /\ discrepancies = None
    /\ mismatch_threshold = 0

\* The submitted tasks of generate_quality_report: the keys of its futures
\* dict in insertion order, then the summary.
Tasks ==
    <<"missing_values", "numeric_ranges", "categorical_values",
      "consistency_checks", "summary_statistics">>

\* The four check tasks.
CheckTasks ==
    {"missing_values", "numeric_ranges", "categorical_values", "consistency_checks"}

\* The connections of a run of main(), by the place that opens them.
HandleSites ==
    {"load_sales", "load_payments", "sales_conn", "payments_conn",
     "missing_aconn", "missing_workers", "range_workers",
     "categorical_aconn", "consistency_aconn", "correct_sales"}

\* main() is not running.
PipelineIdle ==
    /\ main_pc = <<"idle">>
    /\ fault = "none"
    /\ task_pc = [k \in RangeOf(Tasks) |-> "pending"]
    /\ futures = [k \in RangeOf(Tasks) |-> None]
    /\ report = [k \in {} |-> 0]
    /\ completed = <<>>
    /\ handles = [h \in HandleSites |-> "unopened"]

\* No correction has run.
CorrectIdle ==
    /\ sales0 = sales
    /\ applied = <<>>
    /\ correction_counts = [n \in {} |-> 0]
    /\ correct_pc = <<"loop", 1>>

\* reset is not running.
ResetIdle ==
    /\ catalog = [n \in {} |-> ""]
    /\ reset_pc = <<"idle">>
    /\ reset_args = [file_path |-> "", table_name |-> ""]
    /\ table_name = ""
    /\ tables = <<>>

\* No rule check has run.
QualityIdle ==
    /\ numeric_ranges = None
    /\ categorical_values = None
    /\ missing_values = None
    /\ categorical_before = None

(***************************************************************************)
(* SpecQuality: the rule checks run on every table of at most MaxRows      *)
(* rows of QualityRows.                                                    *)
(***************************************************************************)
QualityInit ==
    /\ sales \in SeqsUpTo(QualityRows, MaxRows)
    /\ payments = <<>>
    /\ QualityIdle
    /\ ResetIdle
    /\ ReconcileIdle
    /\ CorrectIdle
    /\ PipelineIdle

\* DataQualityChecker.check_numeric_ranges
CheckNumericRanges ==
    /\ numeric_ranges' = Some(check_numeric_ranges(sales))
    /\ UNCHANGED <<resetVars, sales, payments, categorical_values, missing_values, categorical_before,
                   reconcileVars, correctVars, pipelineVars>>

\* DataQualityChecker.check_categorical_values
CheckCategoricalValues ==
    /\ \E r \in check_categorical_values_results(sales) :
           categorical_values' = Some(r)
    /\ UNCHANGED <<resetVars, sales, payments, numeric_ranges, missing_values, categorical_before,
                   reconcileVars, correctVars, pipelineVars>>

QualityNext ==
    \/ CheckNumericRanges
    \/ CheckCategoricalValues

SpecQuality == QualityInit /\ [][QualityNext]_vars

(***************************************************************************)
(* C1: for every column with a configured range (min, max),                *)
(* check_numeric_ranges reports an outlier_count equal to the number of    *)
(* rows whose value is < min or > max; a row whose value equals min or     *)
(* max is not counted.                                                     *)
(***************************************************************************)
OutlierRows(col) ==
    {i \in DOMAIN sales :
        /\ ~IsNull(sales[i][col])
        /\ \/ Val(sales[i][col]) < numeric_rules[col][1]
           \/ Val(sales[i][col]) > numeric_rules[col][2]}

BoundaryRows(col) ==
    {i \in DOMAIN sales :
        /\ ~IsNull(sales[i][col])
        /\ Val(sales[i][col]) \in {numeric_rules[col][1], numeric_rules[col][2]}}

C1_OutlierCountExact ==
    numeric_ranges # None =>
        \A col \in NumericCols :
            /\ Val(numeric_ranges)[col].outlier_count = Cardinality(OutlierRows(col))
            /\ Val(numeric_ranges)[col].outlier_count
                   <= Len(sales) - Cardinality(BoundaryRows(col))

C1_Witness ==
    /\ numeric_ranges # None
    /\ \E col \in NumericCols :
           /\ BoundaryRows(col) # {}
           /\ OutlierRows(col) # {}
           /\ Val(numeric_ranges)[col].outlier_count = 1

(***************************************************************************)
(* C2: for every categorical column, the sequence returned by              *)
(* check_categorical_values holds no value of the allow-list and holds     *)
(* every distinct value of the column that is not in the allow-list        *)
(* exactly once.                                                           *)
(***************************************************************************)
ColumnValues(col) ==
    {Val(sales[i][col]) : i \in {j \in DOMAIN sales : ~IsNull(sales[j][col])}}

Occurrences(q, v) == Cardinality({i \in DOMAIN q : q[i] = v})

C2_InvalidValuesExact ==
    categorical_values # None =>
        \A col \in CategoricalCols :
            LET listed == Val(categorical_values)[col]
                allowed == RangeOf(categorical_rules[col])
            IN  /\ \A v \in allowed : Occurrences(listed, v) = 0
                /\ \A v \in ColumnValues(col) \ allowed : Occurrences(listed, v) = 1
                /\ RangeOf(listed) \subseteq ColumnValues(col)

C2_Witness ==
    /\ categorical_values # None
    /\ Len(sales) = 2
    /\ sales[1].Gender = Some(sLowerMale)
    /\ sales[2].Gender = Some(sFemale)
    /\ Val(categorical_values)["Gender"] = <<sLowerMale>>

(***************************************************************************)
(* check_payment_consistency.  The tables of the model hold whole-number  *)
(* amounts; a threshold is given in hundredths (the default 0.01 is 1),    *)
(* so |d| > threshold is 100 * |d| > threshold in hundredths.              *)
(***************************************************************************)
Abs(n) == IF n < 0 THEN -n ELSE n

\* The mutation of HavingDuplicate that keeps every group.
HavingAnyPayment(n) == n >= 1

\* HAVING COUNT > 1
HavingDuplicate(n) == n > 1

\* GROUP BY Invoice_ID: the group keys, and the row count of a group.
PaymentKeys(pay) == {pay[i].Invoice_ID : i \in DOMAIN pay}

PaymentCount(pay, key) == Len(SelectSeq(pay, LAMBDA r : r.Invoice_ID = key))

DuplicateRecords(pay) ==
    {[Invoice_ID |-> k, payment_count |-> PaymentCount(pay, k)] :
        k \in {key \in PaymentKeys(pay) : HavingDuplicate(PaymentCount(pay, key))}}

\* SELECT Invoice_ID, Total as sales_total FROM sales
sales_df(table) ==
    [i \in DOMAIN table |->
        [Invoice_ID |-> table[i].Invoice_ID, sales_total |-> table[i].Total]]

\* SELECT Invoice_ID, Total as payment_total FROM payments
payments_df(pay) ==
    [i \in DOMAIN pay |->
        [Invoice_ID |-> pay[i].Invoice_ID, payment_total |-> pay[i].Total]]

\* The rows of the inner join for one left row, in the order of the right frame.
JoinOne(l, right) ==
    LET m == SelectSeq(right, LAMBDA r : r.Invoice_ID = l.Invoice_ID)
    IN  [j \in DOMAIN m |->
            [Invoice_ID |-> l.Invoice_ID,
             sales_total |-> l.sales_total,
             payment_total |-> m[j].payment_total]]

\* pd.merge(left, right, on='Invoice_ID', how='inner', validate='many_to_many')
RECURSIVE merge(_, _)
merge(left, right) ==
    IF left = <<>> THEN <<>>
    ELSE JoinOne(Head(left), right) \o merge(Tail(left), right)

\* sales_total - payment_total; missing when either amount is missing.
Difference(a, b) ==
    IF IsNull(a) \/ IsNull(b) THEN None ELSE Some(Val(a) - Val(b))

WithDifference(merged) ==
    [i \in DOMAIN merged |->
        [Invoice_ID |-> merged[i].Invoice_ID,
         sales_total |-> merged[i].sales_total,
         payment_total |-> merged[i].payment_total,
         difference |-> Difference(merged[i].sales_total, merged[i].payment_total)]]

\* The mutation of IsMismatch that also selects a difference equal to the threshold.
IsMismatchInclusive(d, threshold) ==
    /\ ~IsNull(d)
    /\ 100 * Abs(Val(d)) >= threshold

\* merged_df['difference'].abs() > mismatch_threshold
IsMismatch(d, threshold) ==
    /\ ~IsNull(d)
    /\ 100 * Abs(Val(d)) > threshold

amount_mismatch(table, pay, threshold) ==
    SelectSeq(WithDifference(merge(sales_df(table), payments_df(pay))),
              LAMBDA r : IsMismatch(r.difference, threshold))

\* Every result check_payment_consistency can return: the groups of the
\* duplicates query come in an order the engine chooses.
check_payment_consistency(table, pay, threshold) ==
    {[duplicate_payments |-> d, amount_mismatch |-> amount_mismatch(table, pay, threshold)] :
        d \in Orderings(DuplicateRecords(pay))}

(***************************************************************************)
(* SpecReconcile: check_payment_consistency on every pair of a sales       *)
(* table and a payments table of at most MaxRows rows.                     *)
(***************************************************************************)
InvoiceKeys == {Some(sInv1), Some(sInv2)}

\* The payments table may also hold rows without an invoice key.
PaymentInvoiceKeys == InvoiceKeys \cup {None}

SalesTotals == {None, Some(101)}

PaymentTotals == {None, Some(100), Some(101), Some(103)}

\* Thresholds in hundredths: the default 0.01, and 1.00 and 2.00.
Thresholds == {1, 100, 200}

ReconcileSalesRows ==
    {[DefaultRow EXCEPT !.Invoice_ID = k, !.Total = t] : k \in InvoiceKeys, t \in SalesTotals}

PaymentRows == [Invoice_ID : PaymentInvoiceKeys, Total : PaymentTotals]

ReconcileInit ==
    /\ sales \in SeqsUpTo(ReconcileSalesRows, MaxRows)
    /\ payments \in SeqsUpTo(PaymentRows, MaxRows)
    /\ QualityIdle
    /\ ResetIdle
    /\ ReconcileIdle
    /\ CorrectIdle
    /\ PipelineIdle

\* check_payment_consistency(sales_conn, payments_conn, mismatch_threshold)
CheckPaymentConsistency ==
    /\ discrepancies = None
    /\ \E threshold \in Thresholds :
           /\ mismatch_threshold' = threshold
           /\ \E r \in check_payment_consistency(sales, payments, threshold) :
                  discrepancies' = Some(r)
    /\ UNCHANGED <<resetVars, sales, payments, qualityVars, correctVars, pipelineVars>>

ReconcileNext == CheckPaymentConsistency

SpecReconcile == ReconcileInit /\ [][ReconcileNext]_vars

(***************************************************************************)
(* C3: an invoice key that appears m times in payments is listed in        *)
(* duplicate_payments if and only if m > 1, it is listed once, and its     *)
(* record carries payment_count = m.                                       *)
(***************************************************************************)
TimesInPayments(key) == Cardinality({i \in DOMAIN payments : payments[i].Invoice_ID = key})

DuplicateEntries(key) ==
    {i \in DOMAIN Val(discrepancies).duplicate_payments :
        Val(discrepancies).duplicate_payments[i].Invoice_ID = key}

C3_DuplicatePayments ==
    discrepancies # None =>
        \A key \in PaymentInvoiceKeys :
            /\ Cardinality(DuplicateEntries(key)) = IF TimesInPayments(key) > 1 THEN 1 ELSE 0
            /\ \A i \in DuplicateEntries(key) :
                   Val(discrepancies).duplicate_payments[i].payment_count = TimesInPayments(key)

C3_Witness ==
    /\ discrepancies # None
    /\ TimesInPayments(Some(sInv1)) = 2
    /\ TimesInPayments(Some(sInv2)) = 0
    /\ Val(discrepancies).duplicate_payments =
           <<[Invoice_ID |-> Some(sInv1), payment_count |-> 2]>>

(***************************************************************************)
(* C4: a pair (sales row, payments row) with the same Invoice_ID appears   *)
(* in amount_mismatch if and only if |sales_total - payment_total| is      *)
(* strictly greater than the threshold of the call; an invoice present in  *)
(* only one table yields no record.                                        *)
(***************************************************************************)
JoinedPairs ==
    {ij \in (DOMAIN sales) \X (DOMAIN payments) :
        sales[ij[1]].Invoice_ID = payments[ij[2]].Invoice_ID}

PairExceeds(ij) ==
    /\ ~IsNull(sales[ij[1]].Total)
    /\ ~IsNull(payments[ij[2]].Total)
    /\ 100 * Abs(Val(sales[ij[1]].Total) - Val(payments[ij[2]].Total)) > mismatch_threshold

PairRecord(ij) ==
    [Invoice_ID |-> sales[ij[1]].Invoice_ID,
     sales_total |-> sales[ij[1]].Total,
     payment_total |-> payments[ij[2]].Total,
     difference |-> Difference(sales[ij[1]].Total, payments[ij[2]].Total)]

C4_AmountMismatch ==
    discrepancies # None =>
        LET listed == Val(discrepancies).amount_mismatch
        IN  /\ \A ij \in JoinedPairs : (PairRecord(ij) \in RangeOf(listed)) <=> PairExceeds(ij)
            /\ Len(listed) = Cardinality({ij \in JoinedPairs : PairExceeds(ij)})
            /\ \A rec \in RangeOf(listed) : \E ij \in JoinedPairs : rec = PairRecord(ij)

C4_Witness ==
    /\ discrepancies # None
    /\ mismatch_threshold = 100
    /\ Len(sales) = 2 /\ Len(payments) = 2
    /\ sales[1].Invoice_ID # sales[2].Invoice_ID
    /\ payments[1].Invoice_ID = payments[2].Invoice_ID
    /\ \E ij \in JoinedPairs : PairExceeds(ij)
    /\ \E ij \in JoinedPairs :
           /\ ~PairExceeds(ij)
           /\ Difference(sales[ij[1]].Total, payments[ij[2]].Total) = Some(1)
    /\ Len(Val(discrepancies).amount_mismatch) = 1

(***************************************************************************)
(* The corrections of auto_correct_data.                                   *)
(***************************************************************************)
UpperLetters ==
    <<"A", "B", "C", "D", "E", "F", "G", "H", "I", "J", "K", "L", "M",
      "N", "O", "P", "Q", "R", "S", "T", "U", "V", "W", "X", "Y", "Z">>

LowerLetters ==
    <<"a", "b", "c", "d", "e", "f", "g", "h", "i", "j", "k", "l", "m",
      "n", "o", "p", "q", "r", "s", "t", "u", "v", "w", "x", "y", "z">>

LowerChar(c) ==
    IF \E i \in DOMAIN UpperLetters : UpperLetters[i] = c
    THEN LowerLetters[CHOOSE i \in DOMAIN UpperLetters : UpperLetters[i] = c]
    ELSE c

\* LOWER(text)
Lower(text) == [i \in DOMAIN text |-> LowerChar(text[i])]

RECURSIVE LTrim(_)
LTrim(text) ==
    IF text # <<>> /\ Head(text) = " " THEN LTrim(Tail(text)) ELSE text

RECURSIVE RTrim(_)
RTrim(text) ==
    IF text # <<>> /\ text[Len(text)] = " "
    THEN RTrim(SubSeq(text, 1, Len(text) - 1))
    ELSE text

\* The mutation of Trim that removes leading spaces only.
TrimLeadingOnly(x) == IF IsNull(x) THEN None ELSE Some(LTrim(Val(x)))

\* TRIM(column): spaces removed from both sides; TRIM(NULL) is NULL.
Trim(x) == IF IsNull(x) THEN None ELSE Some(RTrim(LTrim(Val(x))))

\* CASE WHEN LOWER(c) = 'member' THEN 'Member'
\*      WHEN LOWER(c) = 'normal' THEN 'Normal' ELSE c END
FixCaseCustomerType(x) ==
    IF IsNull(x) THEN x
    ELSE IF Lower(Val(x)) = sLowerMember THEN Some(sMember)
    ELSE IF Lower(Val(x)) = sLowerNormal THEN Some(sNormal)
    ELSE x

\* The mutation of FixCaseGender that compares Gender without LOWER.
FixCaseGenderNoLower(x) ==
    IF IsNull(x) THEN x
    ELSE IF Val(x) = sLowerMale THEN Some(sMale)
    ELSE IF Val(x) = sLowerFemale THEN Some(sFemale)
    ELSE x

\* CASE WHEN LOWER(Gender) = 'male' THEN 'Male'
\*      WHEN LOWER(Gender) = 'female' THEN 'Female' ELSE Gender END
FixCaseGender(x) ==
    IF IsNull(x) THEN x
    ELSE IF Lower(Val(x)) = sLowerMale THEN Some(sMale)
    ELSE IF Lower(Val(x)) = sLowerFemale THEN Some(sFemale)
    ELSE x

\* The corrections dict, in its insertion order.
corrections == <<"trim_whitespace", "fix_case_customer_type", "fix_case_gender">>

\* The table after the UPDATE of one correction: every row is updated.
RunUpdate(name, table) ==
    [i \in DOMAIN table |->
        CASE name = "trim_whitespace" ->
                [table[i] EXCEPT !.Invoice_ID = Trim(@),
                                 !.Branch = Trim(@),
                                 !.City = Trim(@),
                                 !.Customer_type = Trim(@),
                                 !.Gender = Trim(@),
                                 !.Product_line = Trim(@),
                                 !.Payment = Trim(@)]
          [] name = "fix_case_customer_type" ->
                [table[i] EXCEPT !.Customer_type = FixCaseCustomerType(@)]
          [] name = "fix_case_gender" ->
                [table[i] EXCEPT !.Gender = FixCaseGender(@)]]

\* result.fetchone()[0]: the count an UPDATE without a WHERE clause reports
\* is the number of rows of the table.
RowsAffected(name, table) == Len(table)

\* The sentinel stored for a correction whose query raised.
CorrectionFailed == -1

\* correction_counts[correction_name] = value
Put(counts, name, value) ==
    [n \in DOMAIN counts \cup {name} |-> IF n = name THEN value ELSE counts[n]]

\* The try branch of the loop body: the query runs and its count is stored.
RunCorrection(name) ==
    /\ sales' = RunUpdate(name, sales)
    /\ correction_counts' = Put(correction_counts, name, RowsAffected(name, sales))
    /\ applied' = Append(applied, [name |-> name,
                                    count |-> RowsAffected(name, sales),
                                    raised |-> FALSE])

\* The except branch of the loop body: the query raised and changed nothing.
FailCorrection(name) ==
    /\ sales' = sales
    /\ correction_counts' = Put(correction_counts, name, CorrectionFailed)
    /\ applied' = Append(applied, [name |-> name,
                                    count |-> CorrectionFailed,
                                    raised |-> TRUE])

\* Rows that differ from DefaultRow in at most one text column.
CorrectorRows ==
    {DefaultRow}
    \cup {[DefaultRow EXCEPT !.Gender = v] :
            v \in {None, Some(sLowerMale), Some(sSpaceMale), Some(sMaleSpace),
                   Some(sUpperMale), Some(sOther)}}
    \cup {[DefaultRow EXCEPT !.Customer_type = v] :
            v \in {None, Some(sLowerMember), Some(sSpaceNormalSpace)}}
    \cup {[DefaultRow EXCEPT !.Invoice_ID = Some(sSpaceInv1)],
          [DefaultRow EXCEPT !.City = Some(sYangonSpace)],
          [DefaultRow EXCEPT !.Payment = Some(sSpaceCash)]}

(***************************************************************************)
(* SpecCorrector: the correction queries applied one at a time, in any     *)
(* order and any number of times up to MaxApplied, to every table of at    *)
(* most MaxRows rows of CorrectorRows.                                     *)
(***************************************************************************)
CorrectorInit ==
    /\ sales \in SeqsUpTo(CorrectorRows, MaxRows)
    /\ payments = <<>>
    /\ QualityIdle
    /\ ResetIdle
    /\ ReconcileIdle
    /\ CorrectIdle
    /\ PipelineIdle

ApplyCorrection ==
    /\ Len(applied) < MaxApplied
    /\ \E i \in DOMAIN corrections : RunCorrection(corrections[i])
    /\ UNCHANGED <<resetVars, payments, qualityVars, reconcileVars, sales0, correct_pc, pipelineVars>>

CorrectorNext == ApplyCorrection

SpecCorrector == CorrectorInit /\ [][CorrectorNext]_vars

(***************************************************************************)
(* SpecAutoCorrect: auto_correct_data, one loop iteration per step; the    *)
(* query of an iteration either runs or raises.                            *)
(***************************************************************************)
\* The mutation of AfterFailure in which the exception leaves the function.
AfterFailurePropagate(i) == <<"raised">>

\* After the except branch the loop goes on with the next correction.
AfterFailure(i) ==
    IF i < Len(corrections) THEN <<"loop", i + 1>> ELSE <<"returned">>

AfterSuccess(i) ==
    IF i < Len(corrections) THEN <<"loop", i + 1>> ELSE <<"returned">>

AutoCorrectInit == CorrectorInit

AutoCorrectRun ==
    /\ correct_pc[1] = "loop"
    /\ RunCorrection(corrections[correct_pc[2]])
    /\ correct_pc' = AfterSuccess(correct_pc[2])
    /\ UNCHANGED <<resetVars, payments, qualityVars, reconcileVars, sales0, pipelineVars>>

AutoCorrectRaise ==
    /\ correct_pc[1] = "loop"
    /\ FailCorrection(corrections[correct_pc[2]])
    /\ correct_pc' = AfterFailure(correct_pc[2])
    /\ UNCHANGED <<resetVars, payments, qualityVars, reconcileVars, sales0, pipelineVars>>

AutoCorrectNext ==
    \/ AutoCorrectRun
    \/ AutoCorrectRaise

SpecAutoCorrect == AutoCorrectInit /\ [][AutoCorrectNext]_vars

(***************************************************************************)
(* C8: when trim_whitespace is applied twice in succession, the count      *)
(* reported for the second application is 0.                               *)
(***************************************************************************)
C8_SecondTrimCountZero ==
    \A i \in 1..(Len(applied) - 1) :
        (applied[i].name = "trim_whitespace" /\ applied[i + 1].name = "trim_whitespace")
            => applied[i + 1].count = 0

(***************************************************************************)
(* C9 as stated: applying trim_whitespace and the two case-fold            *)
(* corrections in any order yields the same final table.                   *)
(***************************************************************************)
AppliedNames == {applied[i].name : i \in DOMAIN applied}

AllAppliedOnce ==
    /\ Len(applied) = Len(corrections)
    /\ AppliedNames = RangeOf(corrections)

CodeOrderResult(table) ==
    RunUpdate("fix_case_gender",
        RunUpdate("fix_case_customer_type",
            RunUpdate("trim_whitespace", table)))

C9_OrderInsensitive ==
    AllAppliedOnce => sales = CodeOrderResult(sales0)

(***************************************************************************)
(* C9 as amended: the orders agree on every table in which no              *)
(* Customer_type or Gender value carries leading or trailing spaces        *)
(* around a non-canonical case variant of an allowed value, and the final  *)
(* table then holds each text value without surrounding spaces and each    *)
(* case variant in its canonical form.  On a table with such a value the   *)
(* canonical form is stored when trim_whitespace runs first and is not     *)
(* when it runs last.                                                      *)
(***************************************************************************)
TrimmedCols ==
    {"Invoice_ID", "Branch", "City", "Customer_type", "Gender", "Product_line", "Payment"}

FoldedCols == {"Customer_type", "Gender"}

Canonical(col) ==
    IF col = "Customer_type" THEN {sMember, sNormal} ELSE {sMale, sFemale}

NonSpace(text) == {i \in DOMAIN text : text[i] # " "}

Stripped(text) ==
    IF NonSpace(text) = {} THEN <<>>
    ELSE SubSeq(text,
                CHOOSE i \in NonSpace(text) : \A j \in NonSpace(text) : i <= j,
                CHOOSE i \in NonSpace(text) : \A j \in NonSpace(text) : i >= j)

SameLetters(a, b) ==
    /\ Len(a) = Len(b)
    /\ \A i \in DOMAIN a : LowerChar(a[i]) = LowerChar(b[i])

Folded(col, text) ==
    IF \E c \in Canonical(col) : SameLetters(text, c)
    THEN CHOOSE c \in Canonical(col) : SameLetters(text, c)
    ELSE text

ExpectedValue(col, x) ==
    IF IsNull(x) THEN None
    ELSE IF col \in FoldedCols THEN Some(Folded(col, Stripped(Val(x))))
    ELSE IF col \in TrimmedCols THEN Some(Stripped(Val(x)))
    ELSE x

ExpectedFinal(table) ==
    [i \in DOMAIN table |-> [col \in DOMAIN table[i] |-> ExpectedValue(col, table[i][col])]]

OrderSensitiveValue(col, x) ==
    /\ ~IsNull(x)
    /\ Stripped(Val(x)) # Val(x)
    /\ Stripped(Val(x)) \notin Canonical(col)
    /\ \E c \in Canonical(col) : SameLetters(Stripped(Val(x)), c)

OrderSensitive(table) ==
    \E i \in DOMAIN table : \E col \in FoldedCols : OrderSensitiveValue(col, table[i][col])

C9_OrderInsensitiveWithoutPaddedVariants ==
    AllAppliedOnce =>
        /\ ~OrderSensitive(sales0) => sales = ExpectedFinal(sales0)
        /\ applied[1].name = "trim_whitespace" => sales = ExpectedFinal(sales0)
        /\ (OrderSensitive(sales0) /\ applied[3].name = "trim_whitespace")
               => sales # ExpectedFinal(sales0)

C9_Witness ==
    /\ AllAppliedOnce
    /\ applied[1].name = "fix_case_gender"
    /\ applied[3].name = "trim_whitespace"
    /\ ~OrderSensitive(sales0)
    /\ Len(sales0) = 2
    /\ sales0[1].Gender = Some(sMaleSpace)
    /\ sales0[2].Customer_type = Some(sLowerMember)
    /\ sales[1].Gender = Some(sMale)
    /\ sales[2].Customer_type = Some(sMember)

(***************************************************************************)
(* C10: in auto_correct_data a correction whose query raises is recorded   *)
(* as -1, every other correction is still executed, the returned mapping   *)
(* has exactly the three keys, and the exception does not reach the        *)
(* caller.                                                                 *)
(***************************************************************************)
C10_FailureIsolated ==
    /\ correct_pc # <<"raised">>
    /\ correct_pc = <<"returned">> =>
           /\ DOMAIN correction_counts =
                  {"trim_whitespace", "fix_case_customer_type", "fix_case_gender"}
           /\ [i \in DOMAIN applied |-> applied[i].name] = corrections
           /\ \A i \in DOMAIN applied :
                  /\ applied[i].raised => correction_counts[applied[i].name] = -1
                  /\ ~applied[i].raised => correction_counts[applied[i].name] = applied[i].count
                  /\ ~applied[i].raised => applied[i].count >= 0

C10_Witness ==
    /\ correct_pc = <<"returned">>
    /\ Len(sales) = 2
    /\ correction_counts["trim_whitespace"] = 2
    /\ correction_counts["fix_case_customer_type"] = -1
    /\ correction_counts["fix_case_gender"] = 2
    /\ sales0[1].Gender = Some(sLowerMale)
    /\ sales[1].Gender = Some(sMale)

(***************************************************************************)
(* The remaining tasks of generate_quality_report.                         *)
(***************************************************************************)
\* The columns of the sales table (the description of SELECT * FROM sales).
Columns == DOMAIN DefaultRow

\* The mutation of check_column_missing that returns COUNT(column).
check_column_present(table, column) ==
    Len(SelectSeq(ColumnOf(table, column), LAMBDA x : ~IsNull(x)))

\* SELECT COUNT of rows - COUNT(column) FROM sales
check_column_missing(table, column) ==
    Len(table) - Len(SelectSeq(ColumnOf(table, column), LAMBDA x : ~IsNull(x)))

check_missing_values(table) ==
    [col \in Columns |-> check_column_missing(table, col)]

\* Dates are day numbers relative to CURRENT_DATE.
CurrentDate == 0

\* Unit_price * Quantity * (1 + 0.05), in hundredths.
CalculatedTotal(r) == Val(r.Unit_price) * Val(r.Quantity) * 105

\* ABS(Total - calculated_total) > 0.01, compared in hundredths; a NULL
\* operand makes the condition NULL, which selects no row.
TotalCalculationWhere(r) ==
    /\ ~IsNull(r.Total) /\ ~IsNull(r.Unit_price) /\ ~IsNull(r.Quantity)
    /\ Abs(100 * Val(r.Total) - CalculatedTotal(r)) > 1

FutureDateWhere(r) == ~IsNull(r.Date) /\ Val(r.Date) > CurrentDate

check_data_consistency(table) ==
    LET bad == SelectSeq(table, TotalCalculationWhere)
        future == SelectSeq(table, FutureDateWhere)
    IN  [total_calculation |->
            [i \in DOMAIN bad |->
                [Invoice_ID |-> bad[i].Invoice_ID,
                 Total |-> bad[i].Total,
                 calculated_total |-> CalculatedTotal(bad[i]),
                 difference |-> Abs(100 * Val(bad[i].Total) - CalculatedTotal(bad[i]))]],
         future_dates |->
            [i \in DOMAIN future |->
                [Invoice_ID |-> future[i].Invoice_ID, Date |-> future[i].Date]]]

RECURSIVE SumOf(_)
SumOf(xs) == IF xs = <<>> THEN 0 ELSE Val(Head(xs)) + SumOf(Tail(xs))

\* AVG(column) as the pair <<sum, count>> of its non-NULL values, NULL if none.
Avg(table, column) ==
    LET xs == SelectSeq(ColumnOf(table, column), LAMBDA x : ~IsNull(x))
    IN  IF xs = <<>> THEN None ELSE Some(<<SumOf(xs), Len(xs)>>)

\* COUNT(DISTINCT column)
CountDistinct(table, column) ==
    Cardinality({x \in RangeOf(ColumnOf(table, column)) : ~IsNull(x)})

get_summary(table) ==
    [total_records |-> Len(table),
     unique_invoices |-> CountDistinct(table, "Invoice_ID"),
     unique_products |-> CountDistinct(table, "Product_line"),
     avg_rating |-> Avg(table, "Rating"),
     avg_margin |-> Avg(table, "gross_margin_pct")]

\* The mutation of SubmittedCall with two of the lambdas interchanged.
SubmittedCallSwapped(key) ==
    IF key = "categorical_values" THEN "consistency_checks"
    ELSE IF key = "consistency_checks" THEN "categorical_values"
    ELSE key

\* The method the task submitted under a key of the futures dict calls.
SubmittedCall(key) == key

\* Every value a call can return on the table.
CallResults(call, table) ==
    CASE call = "missing_values" -> {check_missing_values(table)}
      [] call = "numeric_ranges" -> {check_numeric_ranges(table)}
      [] call = "categorical_values" -> check_categorical_values_results(table)
      [] call = "consistency_checks" -> {check_data_consistency(table)}
      [] call = "summary_statistics" -> {get_summary(table)}

(***************************************************************************)
(* SpecPipeline: main().  A connection is "unopened", "open", "dropped"    *)
(* (open, never closed, and no longer referenced: it is released whenever  *)
(* the garbage collector finalizes it) or "closed".                        *)
(***************************************************************************)
BadRow ==
    [DefaultRow EXCEPT !.Invoice_ID = Some(sInv2), !.Gender = Some(sSpaceMale),
                       !.Rating = Some(11), !.Total = Some(25), !.City = None]

\* The contents of supermarket_sales.csv and of payments.csv.
PipelineSales == {<<DefaultRow>>, <<DefaultRow, BadRow>>}

PipelinePayments ==
    {<<[Invoice_ID |-> Some(sInv1), Total |-> Some(21)],
       [Invoice_ID |-> Some(sInv1), Total |-> Some(20)]>>}

\* mismatch_threshold=0.01 in main(), in hundredths.
MainThreshold == 1

PipelineInit ==
    /\ sales = <<>>
    /\ payments = <<>>
    /\ QualityIdle
    /\ ResetIdle
    /\ ReconcileIdle
    /\ CorrectIdle
    /\ main_pc = <<"load_sales">>
    /\ fault \in {"none"} \cup RangeOf(Tasks)
    /\ task_pc = [k \in RangeOf(Tasks) |-> "pending"]
    /\ futures = [k \in RangeOf(Tasks) |-> None]
    /\ report = [k \in {} |-> 0]
    /\ completed = <<>>
    /\ handles = [h \in HandleSites |-> "unopened"]

taskVars == <<fault, task_pc, futures, report, completed>>

\* sales_conn = db.connect_write(); db.reset(sales_conn, 'supermarket_sales.csv', 'sales')
LoadSales ==
    /\ main_pc = <<"load_sales">>
    /\ \E csv \in PipelineSales : sales' = csv /\ sales0' = csv
    /\ handles' = [handles EXCEPT !["load_sales"] = "open"]
    /\ main_pc' = <<"load_payments">>
    /\ UNCHANGED <<resetVars, payments, qualityVars, reconcileVars, applied, correction_counts,
                   correct_pc, taskVars>>

\* reset raises: the exception leaves main().
LoadSalesFails ==
    /\ main_pc = <<"load_sales">>
    /\ handles' = [handles EXCEPT !["load_sales"] = "open"]
    /\ main_pc' = <<"aborted", "reset">>
    /\ UNCHANGED <<resetVars, sales, payments, qualityVars, reconcileVars, correctVars, taskVars>>

\* payments_conn = db.connect_write_payments(); db.reset(payments_conn, 'payments.csv', 'payments')
LoadPayments ==
    /\ main_pc = <<"load_payments">>
    /\ payments' \in PipelinePayments
    /\ handles' = [handles EXCEPT !["load_payments"] = "open"]
    /\ main_pc' = <<"close_load">>
    /\ UNCHANGED <<resetVars, sales, qualityVars, reconcileVars, correctVars, taskVars>>

\* sales_conn.close(); payments_conn.close()
CloseLoad ==
    /\ main_pc = <<"close_load">>
    /\ handles' = [handles EXCEPT !["load_sales"] = "closed", !["load_payments"] = "closed"]
    /\ main_pc' = <<"connect">>
    /\ UNCHANGED <<resetVars, sales, payments, qualityVars, reconcileVars, correctVars, taskVars>>

\* sales_conn = db.connect(); payments_conn = db.connect_payments()
Connect ==
    /\ main_pc = <<"connect">>
    /\ handles' = [handles EXCEPT !["sales_conn"] = "open", !["payments_conn"] = "open"]
    /\ main_pc' = <<"report">>
    /\ UNCHANGED <<resetVars, sales, payments, qualityVars, reconcileVars, correctVars, taskVars>>

\* generate_quality_report: the five tasks are submitted to the executor.
SubmitTasks ==
    /\ main_pc = <<"report">>
    /\ main_pc' = <<"collect", 1>>
    /\ UNCHANGED <<resetVars, sales, payments, qualityVars, reconcileVars, correctVars, taskVars, handles>>

Submitted == main_pc[1] \in {"collect", "unwind"}

\* The connection a check task opens first; the workers of the process pool
\* of check_numeric_ranges each open their own.
FirstHandle(k) ==
    CASE k = "missing_values" -> "missing_aconn"
      [] k = "numeric_ranges" -> "range_workers"
      [] k = "categorical_values" -> "categorical_aconn"
      [] k = "consistency_checks" -> "consistency_aconn"

\* A check task starts on a thread of the executor and opens its connection.
TaskStart(k) ==
    /\ Submitted
    /\ task_pc[k] = "pending"
    /\ task_pc' = [task_pc EXCEPT ![k] = "opened"]
    /\ handles' = [handles EXCEPT ![FirstHandle(k)] = "open"]
    /\ UNCHANGED <<resetVars, sales, payments, qualityVars, reconcileVars, correctVars,
                   main_pc, fault, futures, report, completed>>

\* check_missing_values: one db.connect() per column, handed to the workers.
MissingMap ==
    /\ task_pc["missing_values"] = "opened"
    /\ fault # "missing_values"
    /\ task_pc' = [task_pc EXCEPT !["missing_values"] = "mapping"]
    /\ handles' = [handles EXCEPT !["missing_workers"] = "open"]
    /\ UNCHANGED <<resetVars, sales, payments, qualityVars, reconcileVars, correctVars,
                   main_pc, fault, futures, report, completed>>

\* The state of the connections of task k once its method has ended: the
\* workers have closed theirs (or ended with the process pool); the local
\* aconn was never closed and is no longer referenced.
HandlesAfter(k) ==
    CASE k = "missing_values" ->
            [handles EXCEPT !["missing_aconn"] = "dropped",
                            !["missing_workers"] = IF @ = "open" THEN "closed" ELSE @]
      [] k = "numeric_ranges" -> [handles EXCEPT !["range_workers"] = "closed"]
      [] k = "categorical_values" -> [handles EXCEPT !["categorical_aconn"] = "dropped"]
      [] k = "consistency_checks" -> [handles EXCEPT !["consistency_aconn"] = "dropped"]
      [] k = "summary_statistics" -> handles

ReadyToEnd(k) ==
    CASE k = "missing_values" -> task_pc[k] = IF fault = k THEN "opened" ELSE "mapping"
      [] k = "summary_statistics" -> Submitted /\ task_pc[k] = "pending"
      [] OTHER -> task_pc[k] = "opened"

\* The method of task k returns: its future holds the result.
TaskReturn(k) ==
    /\ ReadyToEnd(k)
    /\ fault # k
    /\ \E v \in CallResults(SubmittedCall(k), sales) :
           futures' = [futures EXCEPT ![k] = Some([ok |-> TRUE, value |-> v])]
    /\ task_pc' = [task_pc EXCEPT ![k] = "finished"]
    /\ completed' = Append(completed, k)
    /\ handles' = HandlesAfter(k)
    /\ UNCHANGED <<resetVars, sales, payments, qualityVars, reconcileVars, correctVars,
                   main_pc, fault, report>>

\* A query of task k raises: its future holds the exception.
TaskRaise(k) ==
    /\ ReadyToEnd(k)
    /\ fault = k
    /\ futures' = [futures EXCEPT ![k] = Some([ok |-> FALSE, value |-> None])]
    /\ task_pc' = [task_pc EXCEPT ![k] = "finished"]
    /\ completed' = Append(completed, k)
    /\ handles' = HandlesAfter(k)
    /\ UNCHANGED <<resetVars, sales, payments, qualityVars, reconcileVars, correctVars,
                   main_pc, fault, report>>

\* The garbage collector finalizes a connection that is no longer referenced.
Finalize(h) ==
    /\ handles[h] = "dropped"
    /\ handles' = [handles EXCEPT ![h] = "closed"]
    /\ UNCHANGED <<resetVars, sales, payments, qualityVars, reconcileVars, correctVars,
                   main_pc, taskVars>>

\* report = {key: future.result() ...}; report['summary_statistics'] = ...:
\* future.result() waits for its task and returns its value.
Collect ==
    /\ main_pc[1] = "collect"
    /\ LET key == Tasks[main_pc[2]]
       IN  /\ futures[key] # None
           /\ Val(futures[key]).ok
           /\ report' = Put(report, key, Val(futures[key]).value)
           /\ main_pc' = IF main_pc[2] < Len(Tasks)
                          THEN <<"collect", main_pc[2] + 1>>
                          ELSE <<"exit_executor">>
    /\ UNCHANGED <<resetVars, sales, payments, qualityVars, reconcileVars, correctVars,
                   fault, task_pc, futures, completed, handles>>

\* future.result() re-raises the exception of its task.
CollectRaises ==
    /\ main_pc[1] = "collect"
    /\ LET key == Tasks[main_pc[2]]
       IN  /\ futures[key] # None
           /\ ~Val(futures[key]).ok
    /\ main_pc' = <<"unwind">>
    /\ UNCHANGED <<resetVars, sales, payments, qualityVars, reconcileVars, correctVars,
                   taskVars, handles>>

AllTasksFinished == \A k \in RangeOf(Tasks) : task_pc[k] = "finished"

\* The with block is left: the executor is shut down, which waits for every
\* task; generate_quality_report returns the report.
ExitExecutor ==
    /\ main_pc = <<"exit_executor">>
    /\ AllTasksFinished
    /\ main_pc' = <<"reconcile">>
    /\ UNCHANGED <<resetVars, sales, payments, qualityVars, reconcileVars, correctVars,
                   taskVars, handles>>

\* The with block is left by the exception: the executor waits for every
\* task, then the exception leaves generate_quality_report and main().
Unwind ==
    /\ main_pc = <<"unwind">>
    /\ AllTasksFinished
    /\ main_pc' = <<"aborted", "generate_quality_report">>
    /\ UNCHANGED <<resetVars, sales, payments, qualityVars, reconcileVars, correctVars,
                   taskVars, handles>>

\* check_payment_consistency(sales_conn, payments_conn, mismatch_threshold=0.01)
Reconcile ==
    /\ main_pc = <<"reconcile">>
    /\ \E r \in check_payment_consistency(sales, payments, MainThreshold) :
           discrepancies' = Some(r)
    /\ mismatch_threshold' = MainThreshold
    /\ main_pc' = <<"close_report">>
    /\ UNCHANGED <<resetVars, sales, payments, qualityVars, correctVars, taskVars, handles>>

\* sales_conn.close(); payments_conn.close()
CloseReport ==
    /\ main_pc = <<"close_report">>
    /\ handles' = [handles EXCEPT !["sales_conn"] = "closed", !["payments_conn"] = "closed"]
    /\ main_pc' = <<"connect_write">>
    /\ UNCHANGED <<resetVars, sales, payments, qualityVars, reconcileVars, correctVars, taskVars>>

\* sales_conn = db.connect_write()
ConnectWrite ==
    /\ main_pc = <<"connect_write">>
    /\ handles' = [handles EXCEPT !["correct_sales"] = "open"]
    /\ main_pc' = <<"correct">>
    /\ UNCHANGED <<resetVars, sales, payments, qualityVars, reconcileVars, correctVars, taskVars>>

\* correction_results = auto_correct_data(sales_conn)
Correct ==
    /\ main_pc = <<"correct">>
    /\ \/ AutoCorrectRun
       \/ AutoCorrectRaise

\* sales_conn.close()
CloseWrite ==
    /\ main_pc = <<"correct">>
    /\ correct_pc = <<"returned">>
    /\ handles' = [handles EXCEPT !["correct_sales"] = "closed"]
    /\ main_pc' = <<"done">>
    /\ UNCHANGED <<resetVars, sales, payments, qualityVars, reconcileVars, correctVars, taskVars>>

PipelineNext ==
    \/ LoadSales
    \/ LoadSalesFails
    \/ LoadPayments
    \/ CloseLoad
    \/ Connect
    \/ SubmitTasks
    \/ \E k \in CheckTasks : TaskStart(k)
    \/ MissingMap
    \/ \E k \in RangeOf(Tasks) : TaskReturn(k)
    \/ \E k \in RangeOf(Tasks) : TaskRaise(k)
    \/ \E h \in HandleSites : Finalize(h)
    \/ Collect
    \/ CollectRaises
    \/ ExitExecutor
    \/ Unwind
    \/ Reconcile
    \/ CloseReport
    \/ ConnectWrite
    \/ Correct
    \/ CloseWrite

SpecPipeline == PipelineInit /\ [][PipelineNext]_vars

(***************************************************************************)
(* C5: if one of the four check tasks raises during                        *)
(* generate_quality_report, the call still returns a Report whose failed   *)
(* slot holds an empty default and whose other slots hold their normal     *)
(* results; the exception does not reach the caller.                       *)
(***************************************************************************)
ReportReturned ==
    main_pc[1] \in {"reconcile", "close_report", "connect_write", "correct", "done"}

ReportRaised == main_pc = <<"aborted", "generate_quality_report">>

EmptyDefault == [k \in {} |-> 0]

C5_FailedCheckYieldsDefault ==
    (fault \in CheckTasks /\ (ReportReturned \/ ReportRaised)) =>
        /\ ReportReturned
        /\ DOMAIN report = RangeOf(Tasks)
        /\ report[fault] = EmptyDefault
        /\ \A k \in RangeOf(Tasks) \ {fault} : report[k] \in CallResults(k, sales0)

(***************************************************************************)
(* C6: generate_quality_report returns only after all five tasks have      *)
(* completed, and in every completion order the returned Report has        *)
(* exactly the five keys, each bound to the result of its own task.        *)
(***************************************************************************)
C6_ReportMergedByKey ==
    ReportReturned =>
        /\ AllTasksFinished
        /\ Len(completed) = Len(Tasks)
        /\ DOMAIN report =
               {"missing_values", "numeric_ranges", "categorical_values",
                "consistency_checks", "summary_statistics"}
        /\ \A k \in DOMAIN report : report[k] = Val(futures[k]).value
        /\ report["missing_values"] = check_missing_values(sales0)
        /\ report["numeric_ranges"] = check_numeric_ranges(sales0)
        /\ report["categorical_values"] \in check_categorical_values_results(sales0)
        /\ report["consistency_checks"] = check_data_consistency(sales0)
        /\ report["summary_statistics"] = get_summary(sales0)

C6_Witness ==
    /\ main_pc = <<"reconcile">>
    /\ completed = <<"summary_statistics", "consistency_checks", "numeric_ranges",
                     "categorical_values", "missing_values">>
    /\ Len(sales0) = 2
    /\ report["categorical_values"]["Gender"] = <<sSpaceMale>>
    /\ report["numeric_ranges"]["Rating"].outlier_count = 1
    /\ report["summary_statistics"].total_records = 2

(***************************************************************************)
(* C7: every read-only connection to the sales database opened during the  *)
(* validate/reconcile phase has been closed before the writable connection *)
(* for correction is opened: no state has the writable connection open     *)
(* together with a report-phase connection that is not closed.             *)
(***************************************************************************)
ReportPhaseSalesHandles ==
    {"sales_conn", "missing_aconn", "missing_workers", "range_workers",
     "categorical_aconn", "consistency_aconn"}

MissingRows ==
    {DefaultRow}
    \cup {[DefaultRow EXCEPT ![c] = None] : c \in Columns}
    \cup {[DefaultRow EXCEPT !.City = None, !.Rating = None]}

MissingInit ==
    /\ sales \in SeqsUpTo(MissingRows, MaxRows)
    /\ payments = <<>>
    /\ QualityIdle
    /\ ResetIdle
    /\ ReconcileIdle
    /\ CorrectIdle
    /\ PipelineIdle

\* DataQualityChecker.check_missing_values
CheckMissingValues ==
    /\ missing_values' = Some(check_missing_values(sales))
    /\ UNCHANGED <<resetVars, sales, payments, numeric_ranges, categorical_values, categorical_before,
                   reconcileVars, correctVars, pipelineVars>>

MissingNext == CheckMissingValues

SpecMissing == MissingInit /\ [][MissingNext]_vars

(***************************************************************************)
(* C11: for every column of the sales table with k NULL entries out of n   *)
(* rows, check_missing_values reports exactly k for that column, and       *)
(* exactly 0 for a column with no NULL entry.                              *)
(***************************************************************************)
NullRows(col) == {i \in DOMAIN sales : IsNull(sales[i][col])}

C11_MissingCountExact ==
    missing_values # None =>
        /\ DOMAIN Val(missing_values) = Columns
        /\ \A col \in Columns :
               /\ Val(missing_values)[col] = Cardinality(NullRows(col))
               /\ NullRows(col) = {} => Val(missing_values)[col] = 0

C11_Witness ==
    /\ missing_values # None
    /\ Len(sales) = 2
    /\ Cardinality(NullRows("City")) = 2
    /\ Cardinality(NullRows("Rating")) = 1
    /\ NullRows("Gender") = {}
    /\ Val(missing_values)["City"] = 2
    /\ Val(missing_values)["Rating"] = 1
    /\ Val(missing_values)["Gender"] = 0

(***************************************************************************)
(* SpecRecheck: check_categorical_values, then auto_correct_data, then     *)
(* check_categorical_values again, on every table of at most MaxRows rows  *)
(* of CorrectorRows.  A correction query either runs or raises.            *)
(***************************************************************************)
RecheckInit == CorrectorInit

\* The categorical check of the run before the corrections.
CheckBeforeCorrection ==
    /\ categorical_before = None
    /\ correct_pc = <<"loop", 1>>
    /\ \E r \in check_categorical_values_results(sales) :
           categorical_before' = Some(r)
    /\ UNCHANGED <<resetVars, sales, payments, numeric_ranges, categorical_values, missing_values,
                   reconcileVars, correctVars, pipelineVars>>

\* One iteration of the loop of auto_correct_data whose query runs.
CorrectAfterCheck ==
    /\ categorical_before # None
    /\ AutoCorrectRun

\* One iteration of the loop of auto_correct_data whose query raises.
CorrectRaisesAfterCheck ==
    /\ categorical_before # None
    /\ AutoCorrectRaise

\* A new categorical check once auto_correct_data has returned.
CheckAfterCorrection ==
    /\ correct_pc = <<"returned">>
    /\ CheckCategoricalValues

RecheckNext ==
    \/ CheckBeforeCorrection
    \/ CorrectAfterCheck
    \/ CorrectRaisesAfterCheck
    \/ CheckAfterCorrection

SpecRecheck == RecheckInit /\ [][RecheckNext]_vars

(***************************************************************************)
(* C12 as stated: across check, correct, re-check, a Gender value that     *)
(* differs from 'Male' or 'Female' only by letter case is listed by the    *)
(* check before the corrections; once auto_correct_data has run            *)
(* fix_case_gender the stored value is the canonical one and a new check   *)
(* does not list it.  A loaded Gender value that is not a case variant of  *)
(* an allowed value is stored unchanged and the new check lists it.        *)
(***************************************************************************)
CaseVariantOf(text) == {c \in Canonical("Gender") : SameLetters(text, c) /\ text # c}

Unrecognized(text) == \A c \in Canonical("Gender") : ~SameLetters(text, c)

FixCaseGenderRan ==
    /\ correct_pc = <<"returned">>
    /\ correction_counts["fix_case_gender"] # CorrectionFailed

C12_CaseVariantFixedOthersKept ==
    /\ categorical_before # None =>
           \A i \in DOMAIN sales0 :
               (~IsNull(sales0[i].Gender) /\ CaseVariantOf(Val(sales0[i].Gender)) # {})
                   => Occurrences(Val(categorical_before)["Gender"], Val(sales0[i].Gender)) = 1
    /\ (FixCaseGenderRan /\ categorical_values # None) =>
           \A i \in DOMAIN sales0 :
               LET x == sales0[i].Gender
                   relisted == RangeOf(Val(categorical_values)["Gender"])
               IN  /\ (~IsNull(x) /\ CaseVariantOf(Val(x)) # {})
                          => /\ sales[i].Gender \in {Some(c) : c \in CaseVariantOf(Val(x))}
                             /\ Val(x) \notin relisted
                   /\ (~IsNull(x) /\ Unrecognized(Val(x)))
                          => /\ sales[i].Gender = x
                             /\ Val(x) \in relisted

(***************************************************************************)
(* C12 as amended: the case-variant part as stated.  A Gender value that   *)
(* is not a case variant of an allowed value at the time fix_case_gender   *)
(* runs (the loaded value, without its surrounding spaces if               *)
(* trim_whitespace ran) is stored unchanged and the new check lists it.    *)
(* A loaded value that is an allowed value or a case variant of one        *)
(* between surrounding spaces is trimmed and folded to the canonical value *)
(* and is not listed again.                                                *)
(***************************************************************************)
\* The Gender of row i when fix_case_gender runs: the loaded value, with its
\* surrounding spaces removed if trim_whitespace ran.
GenderBeforeFold(i) ==
    IF applied[1].raised \/ IsNull(sales0[i].Gender) THEN sales0[i].Gender
    ELSE Some(Stripped(Val(sales0[i].Gender)))

C12_CaseVariantFixedOnRecheck ==
    /\ categorical_before # None =>
           \A i \in DOMAIN sales0 :
               (~IsNull(sales0[i].Gender) /\ CaseVariantOf(Val(sales0[i].Gender)) # {})
                   => Occurrences(Val(categorical_before)["Gender"], Val(sales0[i].Gender)) = 1
    /\ (FixCaseGenderRan /\ categorical_values # None) =>
           \A i \in DOMAIN sales0 :
               LET x == sales0[i].Gender
                   y == GenderBeforeFold(i)
                   relisted == RangeOf(Val(categorical_values)["Gender"])
               IN  /\ (~IsNull(x) /\ CaseVariantOf(Val(x)) # {})
                          => /\ sales[i].Gender \in {Some(c) : c \in CaseVariantOf(Val(x))}
                             /\ Val(x) \notin relisted
                   /\ (~IsNull(y) /\ Unrecognized(Val(y)))
                          => /\ sales[i].Gender = y
                             /\ Val(y) \in relisted
                   /\ (~IsNull(y) /\ ~Unrecognized(Val(y)))
                          => /\ sales[i].Gender \in {Some(c) : c \in Canonical("Gender")}
                             /\ Val(sales[i].Gender) \notin relisted

\* 'MALE' is listed, folded and not listed again; 'Other' stays listed.
C12_Witness ==
    /\ FixCaseGenderRan
    /\ categorical_values # None
    /\ Len(sales0) = 2
    /\ sales0[1].Gender = Some(sUpperMale)
    /\ sales0[2].Gender = Some(sOther)
    /\ RangeOf(Val(categorical_before)["Gender"]) = {sUpperMale, sOther}
    /\ sales[1].Gender = Some(sMale)
    /\ sales[2].Gender = Some(sOther)
    /\ Val(categorical_values)["Gender"] = <<sOther>>

(***************************************************************************)
(* SpecReset: reset(conn, file_path, table_name) on a database that holds  *)
(* any set of tables, called with the arguments main() passes, one         *)
(* statement per step; a call may follow a call (a later run of main()).   *)
(* SHOW TABLES lists the tables in an order the engine chooses.  The       *)
(* CREATE TABLE statement either runs or raises (read_csv_auto finds no    *)
(* file, or rejects the path that the f-string inserts without quotes).    *)
(***************************************************************************)
\* The names a table of the database can have before the call.
TableNames == {"sales", "payments", "staging", "archive"}

\* The contents of a table that was there before the call.
Previous == "previous"

\* The (file_path, table_name) pairs of the two calls in main().
ResetCalls ==
    {[file_path |-> "supermarket_sales.csv", table_name |-> "sales"],
     [file_path |-> "payments.csv", table_name |-> "payments"]}

ResetInit ==
    /\ sales = <<>>
    /\ payments = <<>>
    /\ QualityIdle
    /\ ReconcileIdle
    /\ CorrectIdle
    /\ PipelineIdle
    /\ catalog \in {[n \in S |-> Previous] : S \in SUBSET TableNames}
    /\ reset_pc = <<"idle">>
    /\ reset_args = [file_path |-> "", table_name |-> ""]
    /\ table_name = ""
    /\ tables = <<>>

\* db.reset(conn, file_path, table_name): the parameters are bound.
ResetCall ==
    /\ reset_pc \in {<<"idle">>, <<"returned">>, <<"raised">>}
    /\ \E call \in ResetCalls :
           /\ reset_args' = call
           /\ table_name' = call.table_name
    /\ reset_pc' = <<"show_tables">>
    /\ tables' = <<>>
    /\ UNCHANGED <<catalog, sales, payments, qualityVars, reconcileVars, correctVars,
                   pipelineVars>>

\* tables = conn.sql("SHOW TABLES").fetchall()
ShowTables ==
    /\ reset_pc = <<"show_tables">>
    /\ tables' \in Orderings(DOMAIN catalog)
    /\ reset_pc' = <<"loop">>
    /\ UNCHANGED <<catalog, reset_args, table_name, sales, payments, qualityVars,
                   reconcileVars, correctVars, pipelineVars>>

\* One iteration of the loop: table_name = table[0]; DROP TABLE IF EXISTS.
DropTable ==
    /\ reset_pc = <<"loop">>
    /\ tables # <<>>
    /\ table_name' = Head(tables)
    /\ catalog' = [n \in DOMAIN catalog \ {Head(tables)} |-> catalog[n]]
    /\ tables' = Tail(tables)
    /\ UNCHANGED <<reset_pc, reset_args, sales, payments, qualityVars, reconcileVars,
                   correctVars, pipelineVars>>

\* CREATE TABLE {table_name} AS SELECT * FROM read_csv_auto({file_path}),
\* then the prints: reset returns.
CreateTable ==
    /\ reset_pc = <<"loop">>
    /\ tables = <<>>
    /\ table_name \notin DOMAIN catalog
    /\ catalog' = [n \in DOMAIN catalog \cup {table_name} |->
                       IF n = table_name THEN reset_args.file_path ELSE catalog[n]]
    /\ reset_pc' = <<"returned">>
    /\ UNCHANGED <<reset_args, table_name, tables, sales, payments, qualityVars,
                   reconcileVars, correctVars, pipelineVars>>

\* The CREATE TABLE statement raises: the except clause re-raises.
CreateTableRaises ==
    /\ reset_pc = <<"loop">>
    /\ tables = <<>>
    /\ reset_pc' = <<"raised">>
    /\ UNCHANGED <<catalog, reset_args, table_name, tables, sales, payments, qualityVars,
                   reconcileVars, correctVars, pipelineVars>>

ResetNext ==
    \/ ResetCall
    \/ ShowTables
    \/ DropTable
    \/ CreateTable
    \/ CreateTableRaises

SpecReset == ResetInit /\ [][ResetNext]_vars

(***************************************************************************)
(* C13: after reset(conn, file_path, table_name) has returned without      *)
(* error, the database holds exactly one table and its name is the         *)
(* table_name argument the caller passed, whatever tables the database     *)
(* held before the call.                                                   *)
(***************************************************************************)
C13_OneTableNamedAsPassed ==
    reset_pc = <<"returned">> => DOMAIN catalog = {reset_args.table_name}

====
